---- MODULE Spec2Model ----
(***************************************************************************)
(* Model of astrbot_plugin_group_aip_review (src/main.py): the verdict     *)
(* interpreter (AuditResultParser), the policy resolver (get_group_config),*)
(* the violation ledger (ViolationManager) and the escalation engine       *)
(* (GroupAipReviewPlugin.on_message and the handlers it awaits).           *)
(*                                                                         *)
(* Python values are modelled as follows.  A dict is a function whose      *)
(* DOMAIN is the set of keys present; d.get(k, v) is Get(d, k, v).  The    *)
(* Chinese string literals of the source are written in ASCII:             *)
(*   "合规" -> "hegui"      "不合规" -> "buhegui"     "疑似" -> "yisi"      *)
(*   "审核失败" -> "shenhe_shibai"   "文本" -> "text"   "图片" -> "image"    *)
(* time.time() is the variable now, in whole seconds, never decreasing.    *)
(***************************************************************************)
EXTENDS Integers, Sequences, FiniteSets, TLC

VARIABLES
  now,              \* time.time()
  ticks,            \* how often the clock has advanced (bounded)
  user_violations,  \* ViolationManager.user_violations: (group, user) -> timestamps
  group_violations, \* ViolationManager.group_violations: group -> timestamps
  history,          \* ghost: every add_violation call ever made, in order
  config,           \* GroupAipReviewPlugin.config (fixed after construction)
  client,           \* BaiduAuditAPI.client: the SDK client, or None (fixed likewise)
  tasks,            \* the on_message coroutines: position and locals of each
  call              \* the pure function under test, its argument and its result

vars == <<now, ticks, user_violations, group_violations, history, config, client, tasks, call>>

----------------------------------------------------------------------------
(* Bounds of the model. *)

MaxTicks == 3
MaxEngineTicks == 1
MaxRecords == 3
MaxLadder == 5
MaxImages == 1
MaxData == 2
MaxOverrides == 2
MaxQueryRecords == 2
MaxQueryTicks == 1
MaxViewTicks == 2
MaxConc == 2
MaxConcTicks == 1
MaxGate == 2
MaxDelay == 2
MaxDelayTicks == 1

(* Program constants. *)

RETENTION == 86400
DEFAULT_TIME_WINDOW == 300
DEFAULT_SINGLE_THRESHOLD == 3
DEFAULT_KICK_THRESHOLD == 5
DEFAULT_GROUP_THRESHOLD == 5

----------------------------------------------------------------------------
(* Python helpers. *)

None == "<None>"

EmptyDict == <<>>

Get(d, k, dflt) == IF k \in DOMAIN d THEN d[k] ELSE dflt

\* truth value of a str-or-None, as in `if notify_group_id:`
Truthy(v) == v # None /\ v # ""

RECURSIVE Join(_)
\* ", ".join(reasons)
Join(reasons) ==
  IF reasons = <<>> THEN ""
  ELSE IF Len(reasons) = 1 THEN reasons[1]
  ELSE reasons[1] \o ", " \o Join(Tail(reasons))

----------------------------------------------------------------------------
(* AuditResultParser *)

HEGUI == "hegui"
BUHEGUI == "buhegui"
YISI == "yisi"
SHENHE_SHIBAI == "shenhe_shibai"

RECURSIVE TextReasons(_)
\* lines 156-159: the msg of every item that has one
TextReasons(data) ==
  IF data = <<>> THEN <<>>
  ELSE (IF "msg" \in DOMAIN Head(data) THEN <<Head(data)["msg"]>> ELSE <<>>)
       \o TextReasons(Tail(data))

RECURSIVE ImageReasons(_)
\* lines 178-183: the msg of an item, else its type
ImageReasons(data) ==
  IF data = <<>> THEN <<>>
  ELSE (IF "msg" \in DOMAIN Head(data) THEN <<Head(data)["msg"]>>
        ELSE IF "type" \in DOMAIN Head(data) THEN <<Head(data)["type"]>>
        ELSE <<>>)
       \o ImageReasons(Tail(data))

YISI_TEXT_REASON == "text suspected of violation, manual review needed"
YISI_IMAGE_REASON == "image suspected of violation, manual review needed"
UNKNOWN_REASON == "unknown audit result"

\* variant: the conclusion label is looked at before the error field
parse_text_result_conclusion_first(result) ==
  LET conclusion == Get(result, "conclusion", "")
      data == Get(result, "data", <<>>)
  IN  IF conclusion = HEGUI THEN <<HEGUI, "">>
      ELSE IF conclusion = BUHEGUI THEN <<BUHEGUI, Join(TextReasons(data))>>
      ELSE IF conclusion = YISI THEN <<YISI, YISI_TEXT_REASON>>
      ELSE IF "error" \in DOMAIN result THEN <<SHENHE_SHIBAI, result["error"]>>
      ELSE <<SHENHE_SHIBAI, UNKNOWN_REASON>>

\* lines 144-164
parse_text_result(result) ==
  IF "error" \in DOMAIN result THEN <<SHENHE_SHIBAI, result["error"]>>
  ELSE LET conclusion == Get(result, "conclusion", "")
           data == Get(result, "data", <<>>)
       IN  IF conclusion = HEGUI THEN <<HEGUI, "">>
           ELSE IF conclusion = BUHEGUI THEN <<BUHEGUI, Join(TextReasons(data))>>
           ELSE IF conclusion = YISI THEN <<YISI, YISI_TEXT_REASON>>
           ELSE <<SHENHE_SHIBAI, UNKNOWN_REASON>>

\* lines 166-188
parse_image_result(result) ==
  IF "error" \in DOMAIN result THEN <<SHENHE_SHIBAI, result["error"]>>
  ELSE LET conclusion == Get(result, "conclusion", "")
           data == Get(result, "data", <<>>)
       IN  IF conclusion = HEGUI THEN <<HEGUI, "">>
           ELSE IF conclusion = BUHEGUI THEN <<BUHEGUI, Join(ImageReasons(data))>>
           ELSE IF conclusion = YISI THEN <<YISI, YISI_IMAGE_REASON>>
           ELSE <<SHENHE_SHIBAI, UNKNOWN_REASON>>

----------------------------------------------------------------------------
(* GroupAipReviewPlugin.get_group_config *)

ExcludedKeys == {"group_id", "__template_key"}

\* lines 301-303: copy every item of custom_config but the two excluded keys
Update(group_config, custom_config) ==
  [key \in DOMAIN group_config \cup (DOMAIN custom_config \ ExcludedKeys) |->
     IF key \in DOMAIN custom_config \ ExcludedKeys
     THEN custom_config[key] ELSE group_config[key]]

\* variant: the loop without its break, so the last match wins
RECURSIVE ScanNoBreak(_, _, _)
ScanNoBreak(group_config, group_custom, group_id) ==
  IF group_custom = <<>> THEN group_config
  ELSE ScanNoBreak(IF Get(Head(group_custom), "group_id", None) = group_id
                   THEN Update(group_config, Head(group_custom))
                   ELSE group_config,
                   Tail(group_custom), group_id)

RECURSIVE Scan(_, _, _)
\* lines 298-307: the loop over group_custom, left at the first match
Scan(group_config, group_custom, group_id) ==
  IF group_custom = <<>> THEN group_config
  ELSE IF Get(Head(group_custom), "group_id", None) = group_id
       THEN Update(group_config, Head(group_custom))
       ELSE Scan(group_config, Tail(group_custom), group_id)

get_group_config(cfg, group_id) ==
  LET disposal_config == Get(cfg, "disposal", EmptyDict)
      default_config == Get(disposal_config, "default", EmptyDict)
      group_custom == Get(disposal_config, "group_custom", <<>>)
  IN  Scan(default_config, group_custom, group_id)

----------------------------------------------------------------------------
(* ViolationManager *)

\* defaultdict(list)[key].append(timestamp)
AppendTo(m, key, timestamp) ==
  [k \in DOMAIN m \cup {key} |->
     IF k = key THEN Append(IF key \in DOMAIN m THEN m[key] ELSE <<>>, timestamp)
     ELSE m[k]]

InWindow(s, cutoff_time) == SelectSeq(s, LAMBDA ts : ts > cutoff_time)

\* _cleanup_expired_records, for one of the two dicts, at time t
cleanup_expired_records(m, t) ==
  [k \in {x \in DOMAIN m : InWindow(m[x], t - RETENTION) # <<>>} |->
     InWindow(m[k], t - RETENTION)]

\* variant: the window closed at its old end (ts >= cutoff)
CountInclusive(m, key, time_window, t) ==
  IF key \notin DOMAIN m THEN 0
  ELSE Len(SelectSeq(m[key], LAMBDA ts : ts >= t - time_window))

\* get_user_violation_count / get_group_violation_count on their dict, at time t
violation_count(m, key, time_window, t) ==
  IF key \notin DOMAIN m THEN 0
  ELSE Len(InWindow(m[key], t - time_window))

get_user_violation_count(group_id, user_id, time_window) ==
  violation_count(user_violations, <<group_id, user_id>>, time_window, now)

get_group_violation_count(group_id, time_window) ==
  violation_count(group_violations, group_id, time_window, now)

----------------------------------------------------------------------------
(* The populations the model draws its inputs from. *)

Groups == {"g1", "g2"}
Users == {"u1", "u2"}

\* clock advances seen by the ledger: half a default window, a default window,
\* the retention horizon
TickSteps == {150, 300, 86400}

\* queried window sizes: the default, the retention horizon, and one beyond it
Windows == {DEFAULT_TIME_WINDOW, RETENTION, 90000}

\* an on_message coroutine that is not running, and its locals
IdleTask ==
  [pc |-> "idle", group |-> None, user |-> None, units |-> <<>>, verdict |-> "none",
   uv |-> 0, calls |-> <<>>, failed |-> FALSE,
   cls |-> 0, checks |-> 0, nc |-> 0, hist0 |-> 0, k |-> 0, allIn |-> FALSE, gk |-> -1,
   own |-> 0, expect |-> 0, raised |-> 0]

Tasks == {"t1"}
NoCall == [op |-> "none", done |-> TRUE]
NoConfig == EmptyDict

----------------------------------------------------------------------------
(* ViolationManager as a component: add_violation at any time, the clock. *)

\* variant: the expiry pass over the user series only
add_violation_half_pass(group_id, user_id, by) ==
  /\ user_violations' =
       cleanup_expired_records(AppendTo(user_violations, <<group_id, user_id>>, now), now)
  /\ group_violations' = AppendTo(group_violations, group_id, now)
  /\ history' = Append(history, [group |-> group_id, user |-> user_id, ts |-> now, by |-> by])

\* variant: the event appended to the per-(group, user) series only
add_violation_user_view_only(group_id, user_id, by) ==
  /\ user_violations' =
       cleanup_expired_records(AppendTo(user_violations, <<group_id, user_id>>, now), now)
  /\ group_violations' = cleanup_expired_records(group_violations, now)
  /\ history' = Append(history, [group |-> group_id, user |-> user_id, ts |-> now, by |-> by])

\* lines 198-209: both appends, then the expiry pass over both dicts
add_violation(group_id, user_id, by) ==
  /\ user_violations' =
       cleanup_expired_records(AppendTo(user_violations, <<group_id, user_id>>, now), now)
  /\ group_violations' =
       cleanup_expired_records(AppendTo(group_violations, group_id, now), now)
  /\ history' = Append(history, [group |-> group_id, user |-> user_id, ts |-> now, by |-> by])

AddViolation(group_id, user_id) ==
  /\ Len(history) < MaxRecords
  /\ add_violation(group_id, user_id, "api")
  /\ UNCHANGED <<now, ticks, config, client, tasks, call>>

\* variant: the count without the test `key not in`, so that reading the
\* defaultdict creates the key with an empty list
CountUserNoGuard(group_id, user_id, time_window) ==
  /\ call' = [op |-> "get_user_violation_count", done |-> TRUE,
              known |-> <<group_id, user_id>> \in DOMAIN user_violations,
              out |-> get_user_violation_count(group_id, user_id, time_window)]
  /\ user_violations' =
       [k \in DOMAIN user_violations \cup {<<group_id, user_id>>} |->
          IF k \in DOMAIN user_violations THEN user_violations[k] ELSE <<>>]
  /\ UNCHANGED <<now, ticks, group_violations, history, config, client, tasks>>

\* lines 211-219: get_user_violation_count as an operation of the ledger; the
\* result is left in call (known: the key was tracked)
CountUser(group_id, user_id, time_window) ==
  /\ call' = [op |-> "get_user_violation_count", done |-> TRUE,
              known |-> <<group_id, user_id>> \in DOMAIN user_violations,
              out |-> get_user_violation_count(group_id, user_id, time_window)]
  /\ UNCHANGED <<now, ticks, user_violations, group_violations, history, config, client, tasks>>

\* lines 221-228: get_group_violation_count likewise
CountGroup(group_id, time_window) ==
  /\ call' = [op |-> "get_group_violation_count", done |-> TRUE,
              known |-> group_id \in DOMAIN group_violations,
              out |-> get_group_violation_count(group_id, time_window)]
  /\ UNCHANGED <<now, ticks, user_violations, group_violations, history, config, client, tasks>>

Tick(d, max) ==
  /\ ticks < max
  /\ now' = now + d
  /\ ticks' = ticks + 1
  /\ UNCHANGED <<user_violations, group_violations, history, config, client, tasks, call>>

InitLedgerVars ==
  /\ now = 0
  /\ ticks = 0
  /\ user_violations = EmptyDict
  /\ group_violations = EmptyDict
  /\ history = <<>>

InitLedger ==
  /\ InitLedgerVars
  /\ config = NoConfig
  /\ client = None
  /\ tasks = [t \in Tasks |-> IdleTask]
  /\ call = NoCall

NextLedger ==
  \/ \E g \in Groups, u \in Users : AddViolation(g, u)
  \/ \E d \in TickSteps : Tick(d, MaxTicks)

SpecLedger == InitLedger /\ [][NextLedger]_vars

\* the ledger under record and count operations in any order
NextQueries ==
  \/ \E g \in Groups, u \in Users : Len(history) < MaxQueryRecords /\ AddViolation(g, u)
  \/ \E g \in Groups, u \in Users, W \in Windows : CountUser(g, u, W)
  \/ \E g \in Groups, W \in Windows : CountGroup(g, W)
  \/ \E d \in TickSteps : Tick(d, MaxQueryTicks)

SpecQueries == InitLedger /\ [][NextQueries]_vars

\* the ledger under record operations, the clock advancing at most
\* MaxViewTicks times
NextViews ==
  \/ \E g \in Groups, u \in Users : AddViolation(g, u)
  \/ \E d \in TickSteps : Tick(d, MaxViewTicks)

SpecViews == InitLedger /\ [][NextViews]_vars

\* ghost: the add_violation calls for (g, u) with timestamp > cutoff
RecordedUser(g, u, cutoff) ==
  SelectSeq(history, LAMBDA e : e.group = g /\ e.user = u /\ e.ts > cutoff)

RecordedGroup(g, cutoff) ==
  SelectSeq(history, LAMBDA e : e.group = g /\ e.ts > cutoff)

----------------------------------------------------------------------------
(* Claims about the ledger, checked under SpecLedger. *)

\* C3 (as stated): at every time, for every window W, the user count equals the
\* number of violations recorded for (g, u) with timestamp > now - W.
C3_CountEqualsRecordedAnyWindow ==
  \A g \in Groups, u \in Users, W \in Windows :
    get_user_violation_count(g, u, W) = Len(RecordedUser(g, u, now - W))

\* C3 (amended): the same for every window W that does not exceed the retention
\* horizon of 86400 s: no event outside the window is counted, none inside is missed.
C3_CountEqualsRecorded ==
  \A g \in Groups, u \in Users, W \in {X \in Windows : X <= RETENTION} :
    get_user_violation_count(g, u, W) = Len(RecordedUser(g, u, now - W))

\* C3 witness: three violations of one user were recorded, the expiry pass has
\* dropped the first, the other two lie inside the default window and are counted
C3_Witness ==
  \E g \in Groups, u \in Users :
    /\ Len(RecordedUser(g, u, -1)) = 3
    /\ Len(RecordedUser(g, u, now - DEFAULT_TIME_WINDOW)) = 2
    /\ <<g, u>> \in DOMAIN user_violations
    /\ Len(user_violations[<<g, u>>]) = 2
    /\ get_user_violation_count(g, u, DEFAULT_TIME_WINDOW) = 2

\* C4: an event older than 24 h (timestamp < now - 86400) never contributes to a
\* user count or a group count, whatever the queried window.
C4_NoStaleEventCounted ==
  \A g \in Groups, W \in Windows :
    /\ get_group_violation_count(g, W) <= Len(RecordedGroup(g, now - RETENTION - 1))
    /\ \A u \in Users :
         get_user_violation_count(g, u, W) <= Len(RecordedUser(g, u, now - RETENTION - 1))

\* no tracked key maps to an empty series
NoEmptySeries ==
  /\ \A k \in DOMAIN user_violations : user_violations[k] # <<>>
  /\ \A k \in DOMAIN group_violations : group_violations[k] # <<>>

\* every stored event of every key is younger than the retention horizon
AllFresh ==
  /\ \A k \in DOMAIN user_violations :
       \A i \in 1..Len(user_violations[k]) : user_violations[k][i] > now - RETENTION
  /\ \A k \in DOMAIN group_violations :
       \A i \in 1..Len(group_violations[k]) : group_violations[k][i] > now - RETENTION

IsCount == call.op \in {"get_user_violation_count", "get_group_violation_count"}

\* C20: in every state reachable by record and count operations no tracked key
\* maps to an empty series and a count for an untracked key has returned 0; a
\* count leaves both dicts as they were (no key created); right after a record
\* no series of any key holds an event with timestamp <= now - 86400.
C20_LedgerTidy ==
  /\ [](NoEmptySeries /\ ((IsCount /\ ~call.known) => call.out = 0))
  /\ [][ /\ history' # history => AllFresh'
         /\ call' # call => UNCHANGED <<user_violations, group_violations>> ]_vars

\* C20 witness: a violation of one key was recorded, 24 h or more later one of
\* another user in another group; the expiry pass of the second record removed
\* the first key from both dicts, and a count for it has returned 0 without
\* bringing the key back
C20_Witness ==
  /\ Len(history) = 2
  /\ history[1].group # history[2].group /\ history[1].user # history[2].user
  /\ history[2].ts >= history[1].ts + RETENTION
  /\ DOMAIN user_violations = {<<history[2].group, history[2].user>>}
  /\ DOMAIN group_violations = {history[2].group}
  /\ call.op = "get_user_violation_count" /\ ~call.known /\ call.out = 0

----------------------------------------------------------------------------
(* The verdict interpreter applied to every raw response of a bounded set. *)

Verdicts == {HEGUI, BUHEGUI, YISI, SHENHE_SHIBAI}

\* the per-item annotations of a response: {msg?, type?}
Items ==
  {EmptyDict, [msg |-> "ad"], [type |-> "porn"], [msg |-> "abuse", type |-> "politics"]}

DataLists == UNION {[1..n -> Items] : n \in 0..MaxData}

\* conclusion labels: the three the parser knows, the empty one, an unknown one
Conclusions == {HEGUI, BUHEGUI, YISI, "", "unknown"}

\* raw responses: any subset of the keys error, conclusion, data, error_code
\* (error_code is what the SDK itself answers on a provider error)
RawResults ==
  UNION {{[k \in S |-> CASE k = "error" -> e
                         [] k = "conclusion" -> c
                         [] k = "data" -> d
                         [] k = "error_code" -> "18"] :
            e \in {"timeout"}, c \in Conclusions, d \in DataLists} :
         S \in SUBSET {"error", "conclusion", "data", "error_code"}}

InitParse ==
  /\ InitLedgerVars
  /\ config = NoConfig
  /\ client = None
  /\ tasks = [t \in Tasks |-> IdleTask]
  /\ call \in {[op |-> o, arg |-> r, done |-> FALSE, out |-> <<>>] :
                 o \in {"parse_text_result", "parse_image_result"}, r \in RawResults}

ApplyParse ==
  /\ ~call.done
  /\ call' = [call EXCEPT !.done = TRUE,
                          !.out = IF call.op = "parse_text_result"
                                  THEN parse_text_result(call.arg)
                                  ELSE parse_image_result(call.arg)]
  /\ UNCHANGED <<now, ticks, user_violations, group_violations, history, config, client, tasks>>

NextParse == ApplyParse

SpecParse == InitParse /\ [][NextParse]_vars

----------------------------------------------------------------------------
(* The policy resolver applied to bounded configurations. *)

\* override entries (disposal.group_custom items)
CustomEntries ==
  { [group_id |-> "g1", single_user_violation_threshold |-> 1],
    [group_id |-> "g1", single_user_violation_threshold |-> 2,
     notify_group_id |-> "n2", __template_key |-> "tpl"],
    [group_id |-> "g2", rule_id |-> "r2", kick_user |-> TRUE],
    [__template_key |-> "tpl", rule_id |-> "r9"],
    [group_id |-> "g1"] }

DefaultConfigs ==
  { EmptyDict,
    [single_user_violation_threshold |-> 3, notify_group_id |-> "n1", rule_id |-> "r0"],
    [group_id |-> "g0", __template_key |-> "dflt", kick_user |-> FALSE] }

CustomLists == UNION {[1..n -> CustomEntries] : n \in 0..MaxOverrides}

\* plugin configurations: no disposal section, a section without one of its two
\* keys, and full sections
ResolveConfigs ==
  {EmptyDict}
  \cup {[disposal |-> [default |-> d]] : d \in DefaultConfigs}
  \cup {[disposal |-> [group_custom |-> l]] : l \in CustomLists}
  \cup {[disposal |-> [default |-> d, group_custom |-> l]] :
          d \in DefaultConfigs, l \in CustomLists}

InitResolve ==
  /\ InitLedgerVars
  /\ config = NoConfig
  /\ client = None
  /\ tasks = [t \in Tasks |-> IdleTask]
  /\ call \in {[op |-> "get_group_config", cfg |-> c, group_id |-> g,
                done |-> FALSE, out |-> EmptyDict] :
                 c \in ResolveConfigs, g \in Groups \cup {"g3"}}

ApplyResolve ==
  /\ ~call.done
  /\ call' = [call EXCEPT !.done = TRUE,
                          !.out = get_group_config(call.cfg, call.group_id)]
  /\ UNCHANGED <<now, ticks, user_violations, group_violations, history, config, client, tasks>>

NextResolve == ApplyResolve

SpecResolve == InitResolve /\ [][NextResolve]_vars

ArgDefault(c) ==
  IF "disposal" \in DOMAIN c /\ "default" \in DOMAIN c["disposal"]
  THEN c["disposal"]["default"] ELSE EmptyDict

ArgCustom(c) ==
  IF "disposal" \in DOMAIN c /\ "group_custom" \in DOMAIN c["disposal"]
  THEN c["disposal"]["group_custom"] ELSE <<>>

\* the positions of the override entries that carry the group identifier g
Matching(l, g) ==
  {i \in 1..Len(l) : "group_id" \in DOMAIN l[i] /\ l[i]["group_id"] = g}

First(S) == CHOOSE i \in S : \A j \in S : i <= j

\* C8: without a matching override the result is the default; otherwise it is the
\* default overlaid with every field of the first matching entry but group_id and
\* __template_key; absent fields keep the default; later entries have no effect.
C8_FirstMatchOverlay ==
  call.done =>
    LET d == ArgDefault(call.cfg)
        l == ArgCustom(call.cfg)
        M == Matching(l, call.group_id)
    IN  IF M = {} THEN call.out = d
        ELSE LET e == l[First(M)]
                 copied == DOMAIN e \ {"group_id", "__template_key"}
             IN  /\ DOMAIN call.out = DOMAIN d \cup copied
                 /\ \A k \in copied : call.out[k] = e[k]
                 /\ \A k \in DOMAIN d \ copied : call.out[k] = d[k]

\* C8 witness: two entries match the group, they disagree on a field, and the
\* result carries the first entry's value and keeps a default field the first
\* entry does not have
C8_Witness ==
  /\ call.done
  /\ LET d == ArgDefault(call.cfg)
         l == ArgCustom(call.cfg)
         M == Matching(l, call.group_id)
     IN  /\ Cardinality(M) = 2
         /\ "single_user_violation_threshold" \in DOMAIN l[1] \cap DOMAIN l[2]
         /\ l[1]["single_user_violation_threshold"] # l[2]["single_user_violation_threshold"]
         /\ call.out["single_user_violation_threshold"] = l[1]["single_user_violation_threshold"]
         /\ "rule_id" \in DOMAIN d
         /\ call.out["rule_id"] = d["rule_id"]
         /\ "group_id" \notin DOMAIN call.out

----------------------------------------------------------------------------
(* The escalation engine: on_message and the coroutines it awaits.          *)
(*                                                                         *)
(* A coroutine runs without interruption from one collaborator call to the *)
(* next: an action of the model is the code between two suspension points. *)
(* tasks[t].pc names the collaborator call the coroutine is suspended in;  *)
(* tasks[t].calls lists the collaborator calls issued for the content unit *)
(* under evaluation.  Ghost fields of a task: checks (punishment checks    *)
(* run for the message), nc (buhegui verdicts of the message), hist0 (the  *)
(* length of history when the message arrived), cls (classifier calls      *)
(* issued for the message), k and allIn (at the user count query: how     *)
(* many violations of the user were ever recorded, and whether all of them *)
(* lay inside the window), gk (at the group count query: how many recorded *)
(* violations of the group lay inside the window; -1 before the query),    *)
(* own (the ordinal, among the recorded violations of its user, of the     *)
(* violation this evaluation recorded; 0 if none), expect (the number of   *)
(* content units of the message the two toggles let through: its text if   *)
(* enable_text_censor is on, each image if enable_image_censor is on),     *)
(* raised (the content units of the message whose audit ended in the       *)
(* except clause of _audit_text / _audit_image).                           *)

\* platform_manager.get_insts(): the clients in order, with the methods each has;
\* the aiocqhttp client the event came from answers both
Platforms ==
  << [send_group_msg |-> FALSE, send_private_msg |-> FALSE],
     [send_group_msg |-> TRUE, send_private_msg |-> TRUE] >>

\* lines 324-326 / 346-348: is there a platform whose client has the method
HasClient(method) == \E i \in 1..Len(Platforms) : Platforms[i][method]

\* lines 266-278: self.baidu_api stays None without both keys
baidu_api(cfg) ==
  LET baidu_config == Get(cfg, "baidu_audit", EmptyDict)
  IN  IF Truthy(Get(baidu_config, "api_key", None))
         /\ Truthy(Get(baidu_config, "secret_key", None))
      THEN "BaiduAuditAPI" ELSE None

\* line 67: the SDK is installed and AipContentCensor(...) returned
AipContentCensor == "AipContentCensor"

Call(op, to) == [op |-> op, to |-> to]

Issue(e, pc, op, to) == [e EXCEPT !.pc = pc, !.calls = Append(@, Call(op, to))]

\* how often the evaluation issued the collaborator call op
Issued(e, op) == Len(SelectSeq(e.calls, LAMBDA c : c.op = op))

\* lines 546-553: the next content unit of the message, or the end of on_message
NextUnit(e) ==
  IF Len(e.units) <= 1 THEN [e EXCEPT !.pc = "done", !.units = <<>>]
  ELSE [e EXCEPT !.pc = "classify", !.units = Tail(@), !.cls = @ + 1]

\* variant: the lockdown without the guard group_threshold > 0
GroupCheckNoGuard(e) ==
  LET group_config == get_group_config(config, e.group)
      time_window == Get(group_config, "time_window", DEFAULT_TIME_WINDOW)
      group_violations_n == get_group_violation_count(e.group, time_window)
      group_threshold == Get(group_config, "group_violation_threshold", DEFAULT_GROUP_THRESHOLD)
      e1 == [e EXCEPT !.gk = Len(RecordedGroup(e.group, now - time_window))]
  IN  IF group_violations_n >= group_threshold
      THEN Issue(e1, "mute_all", "mute_all", e.group)
      ELSE NextUnit(e1)

\* lines 453-460: the group count and the lockdown
GroupCheck(e) ==
  LET group_config == get_group_config(config, e.group)
      time_window == Get(group_config, "time_window", DEFAULT_TIME_WINDOW)
      group_violations_n == get_group_violation_count(e.group, time_window)
      group_threshold == Get(group_config, "group_violation_threshold", DEFAULT_GROUP_THRESHOLD)
      e1 == [e EXCEPT !.gk = Len(RecordedGroup(e.group, now - time_window))]
  IN  IF group_threshold > 0 /\ group_violations_n >= group_threshold
      THEN Issue(e1, "mute_all", "mute_all", e.group)
      ELSE NextUnit(e1)

\* variant: the kick rung compared with 3 instead of kick_threshold
KickCheckAt3(e) ==
  LET group_config == get_group_config(config, e.group)
      kick_threshold == Get(group_config, "kick_user_threshold", DEFAULT_KICK_THRESHOLD)
  IN  IF kick_threshold > 0 /\ e.uv >= 3 /\ Get(group_config, "kick_user", FALSE)
      THEN Issue(e, "kick", "kick", e.user)
      ELSE GroupCheck(e)

\* variant: the group check as an else branch of the user ladder
KickCheckThenDone(e) ==
  LET group_config == get_group_config(config, e.group)
      kick_threshold == Get(group_config, "kick_user_threshold", DEFAULT_KICK_THRESHOLD)
  IN  IF kick_threshold > 0 /\ e.uv >= kick_threshold /\ Get(group_config, "kick_user", FALSE)
      THEN Issue(e, "kick", "kick", e.user)
      ELSE NextUnit(e)

\* lines 448-451: the kick rung, on the count read at line 435
KickCheck(e) ==
  LET group_config == get_group_config(config, e.group)
      kick_threshold == Get(group_config, "kick_user_threshold", DEFAULT_KICK_THRESHOLD)
  IN  IF kick_threshold > 0 /\ e.uv >= kick_threshold /\ Get(group_config, "kick_user", FALSE)
      THEN Issue(e, "kick", "kick", e.user)
      ELSE GroupCheck(e)

\* variant: the kick rung tested also when the mute rung did not fire
UserCheckKickUnnested(e) ==
  LET group_config == get_group_config(config, e.group)
      time_window == Get(group_config, "time_window", DEFAULT_TIME_WINDOW)
      user_violations_n == get_user_violation_count(e.group, e.user, time_window)
      single_threshold ==
        Get(group_config, "single_user_violation_threshold", DEFAULT_SINGLE_THRESHOLD)
      e1 == [e EXCEPT !.uv = user_violations_n, !.checks = @ + 1,
                      !.k = Len(RecordedUser(e.group, e.user, -1)),
                      !.allIn = Len(RecordedUser(e.group, e.user, now - time_window))
                                = Len(RecordedUser(e.group, e.user, -1))]
  IN  IF single_threshold > 0 /\ user_violations_n >= single_threshold
      THEN Issue(e1, "mute", "mute", e.user)
      ELSE KickCheck(e1)

\* variant: the mute fired only when the count reaches the threshold exactly
UserCheckEdge(e) ==
  LET group_config == get_group_config(config, e.group)
      time_window == Get(group_config, "time_window", DEFAULT_TIME_WINDOW)
      user_violations_n == get_user_violation_count(e.group, e.user, time_window)
      single_threshold ==
        Get(group_config, "single_user_violation_threshold", DEFAULT_SINGLE_THRESHOLD)
      e1 == [e EXCEPT !.uv = user_violations_n, !.checks = @ + 1,
                      !.k = Len(RecordedUser(e.group, e.user, -1)),
                      !.allIn = Len(RecordedUser(e.group, e.user, now - time_window))
                                = Len(RecordedUser(e.group, e.user, -1))]
  IN  IF single_threshold > 0 /\ user_violations_n = single_threshold
      THEN Issue(e1, "mute", "mute", e.user)
      ELSE GroupCheck(e1)

\* variant: the mute fired only when the count exceeds the threshold
UserCheckStrict(e) ==
  LET group_config == get_group_config(config, e.group)
      time_window == Get(group_config, "time_window", DEFAULT_TIME_WINDOW)
      user_violations_n == get_user_violation_count(e.group, e.user, time_window)
      single_threshold ==
        Get(group_config, "single_user_violation_threshold", DEFAULT_SINGLE_THRESHOLD)
      e1 == [e EXCEPT !.uv = user_violations_n, !.checks = @ + 1,
                      !.k = Len(RecordedUser(e.group, e.user, -1)),
                      !.allIn = Len(RecordedUser(e.group, e.user, now - time_window))
                                = Len(RecordedUser(e.group, e.user, -1))]
  IN  IF single_threshold > 0 /\ user_violations_n > single_threshold
      THEN Issue(e1, "mute", "mute", e.user)
      ELSE GroupCheck(e1)

\* lines 428-442: _check_and_apply_punishment up to the mute
UserCheck(e) ==
  LET group_config == get_group_config(config, e.group)
      time_window == Get(group_config, "time_window", DEFAULT_TIME_WINDOW)
      user_violations_n == get_user_violation_count(e.group, e.user, time_window)
      single_threshold ==
        Get(group_config, "single_user_violation_threshold", DEFAULT_SINGLE_THRESHOLD)
      e1 == [e EXCEPT !.uv = user_violations_n, !.checks = @ + 1,
                      !.k = Len(RecordedUser(e.group, e.user, -1)),
                      !.allIn = Len(RecordedUser(e.group, e.user, now - time_window))
                                = Len(RecordedUser(e.group, e.user, -1))]
  IN  IF single_threshold > 0 /\ user_violations_n >= single_threshold
      THEN Issue(e1, "mute", "mute", e.user)
      ELSE GroupCheck(e1)

\* lines 311-334: is a notification sent, and to which group
NotifyTarget(e) == Get(get_group_config(config, e.group), "notify_group_id", None)

Notifies(e) == Truthy(NotifyTarget(e)) /\ HasClient("send_group_msg")

\* _send_notification (lines 311-336) from the position pc, then Continue
\* when nothing is sent
NotifyOr(e, pc, continued) ==
  IF Notifies(e) THEN Issue(e, pc, "notify_group", NotifyTarget(e)) ELSE continued

\* the outcome of the collaborator call a coroutine was suspended in
Resumed(e, ok) == [e EXCEPT !.failed = @ \/ ~ok]

SetTask(t, e) ==
  /\ tasks' = [tasks EXCEPT ![t] = e]
  /\ UNCHANGED <<now, ticks, user_violations, group_violations, history, config, client, call>>

InFlight == {t \in DOMAIN tasks : tasks[t].pc # "idle"}

\* the content units on_message audits (lines 538-553)
UnitsOf(hasText, nImages) ==
  (IF Get(config, "enable_text_censor", TRUE) /\ hasText THEN <<"text">> ELSE <<>>)
  \o (IF Get(config, "enable_image_censor", TRUE) THEN [i \in 1..nImages |-> "image"] ELSE <<>>)

InList(x, l) == \E i \in 1..Len(l) : l[i] = x

\* ghost: how many content units of a message the toggles let through
Expected(hasText, nImages) ==
  (IF hasText /\ Get(config, "enable_text_censor", TRUE) THEN 1 ELSE 0)
  + (IF Get(config, "enable_image_censor", TRUE) THEN nImages ELSE 0)

RECURSIVE Pending(_)
\* the content units the handlers in flight have still to audit
Pending(T) ==
  IF T = {} THEN 0
  ELSE LET t == CHOOSE x \in T : TRUE IN Len(tasks[t].units) + Pending(T \ {t})

\* variant: on_message without the test of enabled_groups
OnMessageAnyGroup(t, g, u, hasText, nImages, limit, bound) ==
  /\ tasks[t].pc = "idle"
  /\ Cardinality(InFlight) < limit
  /\ Len(history) + Pending(DOMAIN tasks) + (IF hasText THEN 1 ELSE 0) + nImages <= bound
  /\ LET units == UnitsOf(hasText, nImages)
         e == [IdleTask EXCEPT !.group = g, !.user = u, !.hist0 = Len(history)]
         e1 == [e EXCEPT !.expect = Expected(hasText, nImages)]
     IN  IF \/ g = None
            \/ baidu_api(config) = None
         THEN SetTask(t, [e EXCEPT !.pc = "done"])
         ELSE IF units = <<>>
         THEN SetTask(t, [e1 EXCEPT !.pc = "done"])
         ELSE SetTask(t, [e1 EXCEPT !.pc = "classify", !.units = units, !.cls = 1])

\* lines 511-548: a message arrives; on_message runs to its first classifier call
OnMessage(t, g, u, hasText, nImages, limit, bound) ==
  /\ tasks[t].pc = "idle"
  /\ Cardinality(InFlight) < limit
  /\ Len(history) + Pending(DOMAIN tasks) + (IF hasText THEN 1 ELSE 0) + nImages <= bound
  /\ LET enabled_groups == Get(config, "enabled_groups", <<>>)
         units == UnitsOf(hasText, nImages)
         e == [IdleTask EXCEPT !.group = g, !.user = u, !.hist0 = Len(history)]
         \* lines 538-544: the content is looked at once the gate is passed
         e1 == [e EXCEPT !.expect = Expected(hasText, nImages)]
     IN  IF \/ g = None
            \/ enabled_groups = <<>>
            \/ ~InList(g, enabled_groups)
            \/ baidu_api(config) = None
         THEN SetTask(t, [e EXCEPT !.pc = "done"])
         ELSE IF units = <<>>
         THEN SetTask(t, [e1 EXCEPT !.pc = "done"])
         ELSE SetTask(t, [e1 EXCEPT !.pc = "classify", !.units = units, !.cls = 1])

\* ghost: the ordinal of the violation add_violation is about to record
Own(e) == [e EXCEPT !.own = Len(RecordedUser(e.group, e.user, -1)) + 1]

\* variant: every verdict handled as buhegui
HandleAlwaysRecord(t, e) ==
  /\ add_violation(e.group, e.user, t)
  /\ tasks' = [tasks EXCEPT ![t] = Issue(Own(e), "recall", "recall", e.user)]
  /\ UNCHANGED <<now, ticks, config, client, call>>

\* variant: a failed classification reported to the notify-target
HandleFailureToGroup(t, e) ==
  CASE e.verdict = HEGUI -> SetTask(t, NextUnit(e))
    [] e.verdict = BUHEGUI ->
         /\ add_violation(e.group, e.user, t)
         /\ tasks' = [tasks EXCEPT ![t] = Issue(Own(e), "recall", "recall", e.user)]
         /\ UNCHANGED <<now, ticks, config, client, call>>
    [] e.verdict \in {YISI, SHENHE_SHIBAI} ->
         SetTask(t, NotifyOr(e, "suspicious_notify", NextUnit(e)))

\* variant: one violation per message, however many units are buhegui
HandleOncePerMessage(t, e) ==
  CASE e.verdict = BUHEGUI /\ Len(history) = e.hist0 ->
         /\ add_violation(e.group, e.user, t)
         /\ tasks' = [tasks EXCEPT ![t] = Issue(Own(e), "recall", "recall", e.user)]
         /\ UNCHANGED <<now, ticks, config, client, call>>
    [] e.verdict = BUHEGUI /\ Len(history) # e.hist0 ->
         SetTask(t, Issue(e, "recall", "recall", e.user))
    [] OTHER -> SetTask(t, NextUnit(e))

\* variant: the message recalled only under a policy with an enabled rung
HandleRecallWhenArmed(t, e) ==
  LET group_config == get_group_config(config, e.group)
      admin_id == Get(group_config, "admin_id", None)
      armed ==
        \/ Get(group_config, "single_user_violation_threshold", DEFAULT_SINGLE_THRESHOLD) > 0
        \/ Get(group_config, "group_violation_threshold", DEFAULT_GROUP_THRESHOLD) > 0
  IN  CASE e.verdict = HEGUI -> SetTask(t, NextUnit(e))
        [] e.verdict = BUHEGUI ->
             /\ add_violation(e.group, e.user, t)
             /\ tasks' = [tasks EXCEPT
                            ![t] = IF armed THEN Issue(Own(e), "recall", "recall", e.user)
                                   ELSE NotifyOr(Own(e), "notify", UserCheck(Own(e)))]
             /\ UNCHANGED <<now, ticks, config, client, call>>
        [] e.verdict = YISI -> SetTask(t, NotifyOr(e, "suspicious_notify", NextUnit(e)))
        [] e.verdict = SHENHE_SHIBAI ->
             SetTask(t, IF Truthy(admin_id) /\ HasClient("send_private_msg")
                        THEN Issue(e, "failure_notify", "notify_private", admin_id)
                        ELSE NextUnit(e))

\* lines 358-381 with 383-391, 401-408, 410-417: _handle_audit_result up to the
\* first collaborator call
Handle(t, e) ==
  LET group_config == get_group_config(config, e.group)
      admin_id == Get(group_config, "admin_id", None)
  IN  CASE e.verdict = HEGUI -> SetTask(t, NextUnit(e))
        [] e.verdict = BUHEGUI ->
             /\ add_violation(e.group, e.user, t)
             /\ tasks' = [tasks EXCEPT
                            ![t] = Issue(Own(e), "recall", "recall", e.user)]
             /\ UNCHANGED <<now, ticks, config, client, call>>
        [] e.verdict = YISI -> SetTask(t, NotifyOr(e, "suspicious_notify", NextUnit(e)))
        [] e.verdict = SHENHE_SHIBAI ->
             SetTask(t, IF Truthy(admin_id) /\ HasClient("send_private_msg")
                        THEN Issue(e, "failure_notify", "notify_private", admin_id)
                        ELSE NextUnit(e))

\* the raw responses the SDK answers with
RawChoice ==
  { [conclusion |-> HEGUI],
    [conclusion |-> BUHEGUI, data |-> <<[msg |-> "ad"]>>],
    [conclusion |-> YISI],
    [error |-> "timeout", conclusion |-> BUHEGUI],
    [error_code |-> "18"] }

\* the same with the response {"conclusion": "buhegui", "data": null}, its
\* null written as the key data_null
RawChoiceNull == RawChoice \cup {[conclusion |-> BUHEGUI, data_null |-> TRUE]}

\* lines 90-91 / 109-110: without a client the call answers an error at once
NOT_INITIALISED == [error |-> "client not initialised"]

\* what text_censor / image_censor can return, given the answers of the SDK
Censor(answers) == IF client = None THEN {NOT_INITIALISED} ELSE answers

\* lines 157 / 179: `for item in data` raises TypeError when data is null
Raises(result) ==
  /\ "error" \notin DOMAIN result
  /\ Get(result, "conclusion", "") = BUHEGUI
  /\ "data_null" \in DOMAIN result

\* the locals of a task at the start of the audit of its next content unit
Fresh(e) ==
  [e EXCEPT !.verdict = "none", !.calls = <<>>, !.failed = FALSE,
            !.uv = 0, !.k = 0, !.allIn = FALSE, !.gk = -1, !.own = 0]

\* variant: an exception of the interpreter ends on_message
OnClassifiedAbort(t, raw) ==
  /\ tasks[t].pc = "classify"
  /\ LET e == Fresh(tasks[t])
         audit == IF Head(e.units) = "text"
                  THEN parse_text_result(raw) ELSE parse_image_result(raw)
     IN  IF Raises(raw)
         THEN SetTask(t, [e EXCEPT !.raised = @ + 1, !.pc = "done", !.units = <<>>])
         ELSE Handle(t, [e EXCEPT !.verdict = audit[1],
                                  !.nc = @ + (IF audit[1] = BUHEGUI THEN 1 ELSE 0)])

\* lines 555-566 / 568-579: the classifier answers; the verdict is interpreted
\* and handled; an exception ends the audit of this content unit only
OnClassified(t, raw) ==
  /\ tasks[t].pc = "classify"
  /\ LET e == Fresh(tasks[t])
         audit == IF Head(e.units) = "text"
                  THEN parse_text_result(raw) ELSE parse_image_result(raw)
     IN  IF Raises(raw)
         THEN SetTask(t, NextUnit([e EXCEPT !.raised = @ + 1]))
         ELSE Handle(t, [e EXCEPT !.verdict = audit[1],
                                  !.nc = @ + (IF audit[1] = BUHEGUI THEN 1 ELSE 0)])

\* lines 391-399: delete_msg returned or raised; the violation notice
RecallReturns(t, ok) ==
  /\ tasks[t].pc = "recall"
  /\ LET e == Resumed(tasks[t], ok) IN SetTask(t, NotifyOr(e, "notify", UserCheck(e)))

\* line 399: the violation notice was sent or failed
NotifyReturns(t, ok) ==
  /\ tasks[t].pc = "notify"
  /\ SetTask(t, UserCheck(Resumed(tasks[t], ok)))

\* variant: a successful mute clears the series of the muted user
MuteReturnsClearing(t, ok) ==
  /\ tasks[t].pc = "mute"
  /\ LET e == Resumed(tasks[t], ok)
     IN  /\ tasks' = [tasks EXCEPT ![t] = NotifyOr(e, "mute_notify", KickCheck(e))]
         /\ user_violations' =
              IF ok THEN [k \in DOMAIN user_violations \ {<<e.group, e.user>>} |-> user_violations[k]]
              ELSE user_violations
  /\ UNCHANGED <<now, ticks, group_violations, history, config, client, call>>

\* lines 442-446: set_group_ban returned or raised; the mute notice
MuteReturns(t, ok) ==
  /\ tasks[t].pc = "mute"
  /\ LET e == Resumed(tasks[t], ok) IN SetTask(t, NotifyOr(e, "mute_notify", KickCheck(e)))

\* lines 446-451
MuteNotifyReturns(t, ok) ==
  /\ tasks[t].pc = "mute_notify"
  /\ SetTask(t, KickCheck(Resumed(tasks[t], ok)))

\* lines 478-496: set_group_kick returned (the kick notice follows) or raised
KickReturns(t, ok) ==
  /\ tasks[t].pc = "kick"
  /\ LET e == Resumed(tasks[t], ok)
     IN  SetTask(t, IF ok THEN NotifyOr(e, "kick_notify", GroupCheck(e)) ELSE GroupCheck(e))

\* lines 493-496, then 453
KickNotifyReturns(t, ok) ==
  /\ tasks[t].pc = "kick_notify"
  /\ SetTask(t, GroupCheck(Resumed(tasks[t], ok)))

\* lines 460-464: set_group_whole_ban returned or raised; the lockdown notice
MuteAllReturns(t, ok) ==
  /\ tasks[t].pc = "mute_all"
  /\ LET e == Resumed(tasks[t], ok) IN SetTask(t, NotifyOr(e, "lockdown_notify", NextUnit(e)))

\* the last notice of an evaluation was sent or failed (lines 464, 408, 416)
LastNoticeReturns(t, ok) ==
  /\ tasks[t].pc \in {"lockdown_notify", "suspicious_notify", "failure_notify"}
  /\ SetTask(t, NextUnit(Resumed(tasks[t], ok)))

\* on_message returns
Return(t) ==
  /\ tasks[t].pc = "done"
  /\ SetTask(t, IdleTask)

\* clock advances seen by the engine: a default window, the retention horizon
EngineTickSteps == {300, 86400}

\* senders of messages: a group chat, or a private chat (group None)
MessageGroups == Groups \cup {None}

EngineNext(groups, users, limit, bound, answers) ==
  \/ \E t \in DOMAIN tasks, g \in groups, u \in users,
        hasText \in BOOLEAN, nImages \in 0..MaxImages :
       OnMessage(t, g, u, hasText, nImages, limit, bound)
  \/ \E t \in DOMAIN tasks, raw \in Censor(answers) : OnClassified(t, raw)
  \/ \E t \in DOMAIN tasks, ok \in BOOLEAN : RecallReturns(t, ok)
  \/ \E t \in DOMAIN tasks, ok \in BOOLEAN : NotifyReturns(t, ok)
  \/ \E t \in DOMAIN tasks, ok \in BOOLEAN : MuteReturns(t, ok)
  \/ \E t \in DOMAIN tasks, ok \in BOOLEAN : MuteNotifyReturns(t, ok)
  \/ \E t \in DOMAIN tasks, ok \in BOOLEAN : KickReturns(t, ok)
  \/ \E t \in DOMAIN tasks, ok \in BOOLEAN : KickNotifyReturns(t, ok)
  \/ \E t \in DOMAIN tasks, ok \in BOOLEAN : MuteAllReturns(t, ok)
  \/ \E t \in DOMAIN tasks, ok \in BOOLEAN : LastNoticeReturns(t, ok)
  \/ \E t \in DOMAIN tasks : Return(t)
  \/ \E d \in EngineTickSteps : Tick(d, MaxEngineTicks)

----------------------------------------------------------------------------
(* Plugin configurations and the specifications of the engine.  Spec and   *)
(* SpecLadder dispatch one on_message at a time (a message arrives when no *)
(* handler is in flight); the clock may advance at every suspension point. *)

PluginConfig(default_config, group_custom) ==
  [enabled_groups |-> <<"g1">>,
   baidu_audit |-> [api_key |-> "ak", secret_key |-> "sk"],
   disposal |-> [default |-> default_config, group_custom |-> group_custom]]

\* the ladder of the spec's example: mute at 3, kick at 5, kick enabled; the
\* group threshold and the window are the defaults (5, 300 s)
LadderConfig ==
  PluginConfig([notify_group_id |-> "n1", admin_id |-> "a1"],
               <<[group_id |-> "g1", single_user_violation_threshold |-> 3,
                  kick_user_threshold |-> 5, kick_user |-> TRUE]>>)

EngineConfigs ==
  { \* every rung within reach: mute at 2, kick and lockdown at 3
    PluginConfig([single_user_violation_threshold |-> 0, notify_group_id |-> "n0"],
                 <<[group_id |-> "g1", single_user_violation_threshold |-> 2,
                    kick_user_threshold |-> 3, kick_user |-> TRUE,
                    group_violation_threshold |-> 3, notify_group_id |-> "n1",
                    admin_id |-> "a1"]>>),
    \* the user ladder disabled by 0, lockdown at 2
    PluginConfig([single_user_violation_threshold |-> 0, kick_user_threshold |-> 1,
                  kick_user |-> TRUE, group_violation_threshold |-> 2,
                  notify_group_id |-> "", admin_id |-> ""], <<>>),
    \* mute at 1, kick and lockdown disabled by 0, kick_user set
    PluginConfig([single_user_violation_threshold |-> 1, kick_user_threshold |-> 0,
                  kick_user |-> TRUE, group_violation_threshold |-> 0], <<>>),
    \* every rung disabled by a negative threshold
    PluginConfig([single_user_violation_threshold |-> -1, kick_user_threshold |-> -2,
                  kick_user |-> TRUE, group_violation_threshold |-> -1,
                  notify_group_id |-> "n1"], <<>>),
    \* mute and kick at 1 with kick_user left out, every other key left out
    PluginConfig([single_user_violation_threshold |-> 1, kick_user_threshold |-> 1], <<>>) }

InitEngine ==
  /\ InitLedgerVars
  /\ client = AipContentCensor
  /\ tasks = [t \in Tasks |-> IdleTask]
  /\ call = NoCall

Init == InitEngine /\ config \in EngineConfigs

Next == EngineNext(MessageGroups, Users, 1, MaxRecords, RawChoice)

Spec == Init /\ [][Next]_vars

InitLadder == InitEngine /\ config = LadderConfig

NextLadder == EngineNext({"g1"}, {"u1"}, 1, MaxLadder, RawChoice)

SpecLadder == InitLadder /\ [][NextLadder]_vars

----------------------------------------------------------------------------
(* Concurrent dispatch: two on_message coroutines in flight on the one     *)
(* event loop, interleaved at their suspension points.                     *)

ConcTasks == {"t1", "t2"}

\* mute, kick and lockdown at 2, a notify-target
ConcConfig ==
  PluginConfig([single_user_violation_threshold |-> 0],
               <<[group_id |-> "g1", single_user_violation_threshold |-> 2,
                  kick_user_threshold |-> 2, kick_user |-> TRUE,
                  group_violation_threshold |-> 2, notify_group_id |-> "n1"]>>)

InitConc ==
  /\ InitLedgerVars
  /\ client = AipContentCensor
  /\ config = ConcConfig
  /\ tasks = [t \in ConcTasks |-> IdleTask]
  /\ call = NoCall

\* the verdicts the concurrent messages get: buhegui or hegui
ConcResponses == {r \in Censor(RawChoice) : "error" \notin DOMAIN r
                                            /\ Get(r, "conclusion", "") \in {HEGUI, BUHEGUI}}

\* text messages of the users of one group, at most two handlers in flight,
\* every platform call succeeding
NextConc ==
  \/ \E t \in DOMAIN tasks, u \in Users : OnMessage(t, "g1", u, TRUE, 0, 2, MaxConc)
  \/ \E t \in DOMAIN tasks, raw \in ConcResponses : OnClassified(t, raw)
  \/ \E t \in DOMAIN tasks : RecallReturns(t, TRUE)
  \/ \E t \in DOMAIN tasks : NotifyReturns(t, TRUE)
  \/ \E t \in DOMAIN tasks : MuteReturns(t, TRUE)
  \/ \E t \in DOMAIN tasks : MuteNotifyReturns(t, TRUE)
  \/ \E t \in DOMAIN tasks : KickReturns(t, TRUE)
  \/ \E t \in DOMAIN tasks : KickNotifyReturns(t, TRUE)
  \/ \E t \in DOMAIN tasks : MuteAllReturns(t, TRUE)
  \/ \E t \in DOMAIN tasks : LastNoticeReturns(t, TRUE)
  \/ \E t \in DOMAIN tasks : Return(t)
  \/ \E d \in EngineTickSteps : Tick(d, MaxConcTicks)

SpecConc == InitConc /\ [][NextConc]_vars

----------------------------------------------------------------------------
(* Time between the record step and the counts: two on_message coroutines  *)
(* in flight under policies whose every rung is at 1, with a window of     *)
(* 300 s or of 90000 s (beyond the retention horizon); the clock may       *)
(* advance at every suspension point.                                      *)

DelayWindows == {DEFAULT_TIME_WINDOW, 90000}

DelayConfigs ==
  { PluginConfig([single_user_violation_threshold |-> 1, kick_user_threshold |-> 1,
                  kick_user |-> TRUE, group_violation_threshold |-> 1,
                  notify_group_id |-> "n1", time_window |-> W], <<>>) : W \in DelayWindows }

InitDelay ==
  /\ InitLedgerVars
  /\ client = AipContentCensor
  /\ config \in DelayConfigs
  /\ tasks = [t \in ConcTasks |-> IdleTask]
  /\ call = NoCall

\* text messages of one user in one group (both evaluations work on the same
\* two series), at most two handlers in flight, every platform call succeeding
NextDelay ==
  \/ \E t \in DOMAIN tasks : OnMessage(t, "g1", "u1", TRUE, 0, 2, MaxDelay)
  \/ \E t \in DOMAIN tasks, raw \in ConcResponses : OnClassified(t, raw)
  \/ \E t \in DOMAIN tasks : RecallReturns(t, TRUE)
  \/ \E t \in DOMAIN tasks : NotifyReturns(t, TRUE)
  \/ \E t \in DOMAIN tasks : MuteReturns(t, TRUE)
  \/ \E t \in DOMAIN tasks : MuteNotifyReturns(t, TRUE)
  \/ \E t \in DOMAIN tasks : KickReturns(t, TRUE)
  \/ \E t \in DOMAIN tasks : KickNotifyReturns(t, TRUE)
  \/ \E t \in DOMAIN tasks : MuteAllReturns(t, TRUE)
  \/ \E t \in DOMAIN tasks : LastNoticeReturns(t, TRUE)
  \/ \E t \in DOMAIN tasks : Return(t)
  \/ \E d \in EngineTickSteps : Tick(d, MaxDelayTicks)

SpecDelay == InitDelay /\ [][NextDelay]_vars

----------------------------------------------------------------------------
(* The gate of on_message: configurations with and without the enablement  *)
(* list, the classifier keys, the SDK client and the two content toggles.  *)

\* every rung at 1, a notify-target and an admin
GatePolicy ==
  [single_user_violation_threshold |-> 1, kick_user_threshold |-> 1, kick_user |-> TRUE,
   group_violation_threshold |-> 1, notify_group_id |-> "n1", admin_id |-> "a1"]

\* the top-level keys a configuration may or may not have
GateKeys == {"enabled_groups", "baidu_audit", "enable_text_censor", "enable_image_censor"}

GateConfigs ==
  UNION {{[k \in S \cup {"disposal"} |->
             CASE k = "enabled_groups" -> l
               [] k = "baidu_audit" -> b
               [] k = "enable_text_censor" -> FALSE
               [] k = "enable_image_censor" -> FALSE
               [] k = "disposal" -> [default |-> GatePolicy]] :
            l \in {<<>>, <<"g1">>},
            b \in {[api_key |-> "ak", secret_key |-> "sk"], [api_key |-> "ak"]}} :
         S \in SUBSET GateKeys}

\* lines 59-71, 266-278: the client exists only if the keys are there, the SDK
\* is installed and its constructor returned
InitGate ==
  /\ InitLedgerVars
  /\ config \in GateConfigs
  /\ client \in IF baidu_api(config) = None THEN {None} ELSE {None, AipContentCensor}
  /\ tasks = [t \in Tasks |-> IdleTask]
  /\ call = NoCall

NextGate == EngineNext(MessageGroups, {"u1"}, 1, MaxGate, RawChoiceNull)

SpecGate == InitGate /\ [][NextGate]_vars

----------------------------------------------------------------------------
(* Claims about the engine. *)

\* the effective policy of the group a task's message came from
Policy(e) == get_group_config(config, e.group)

SingleThreshold(e) ==
  Get(Policy(e), "single_user_violation_threshold", DEFAULT_SINGLE_THRESHOLD)

KickThreshold(e) == Get(Policy(e), "kick_user_threshold", DEFAULT_KICK_THRESHOLD)

GroupThreshold(e) == Get(Policy(e), "group_violation_threshold", DEFAULT_GROUP_THRESHOLD)

\* the evaluation of a buhegui verdict that has not yet decided the kick rung
BeforeKickDecision(e) == e.pc \in {"recall", "notify", "mute", "mute_notify"}

\* the evaluation of a buhegui verdict that has not yet come to the group check
BeforeGroupCheck(e) ==
  e.pc \in {"recall", "notify", "mute", "mute_notify", "kick", "kick_notify"}

\* a buhegui verdict is under evaluation, or was the last one evaluated
NonCompliant(e) == e.pc # "idle" /\ e.verdict = BUHEGUI

\* C1: threshold 3, kick threshold 5, kick enabled, the verdicts of one
\* (group, user) handled one after another, all inside the window when counted:
\* the 1st and 2nd evaluation fire no mute, the 3rd (and 4th) fires mute once
\* and no kick, the 5th fires mute and kick.  (e.k is the ordinal of the verdict.)
C1_Ladder ==
  \A t \in DOMAIN tasks :
    LET e == tasks[t]
    IN  ( /\ NonCompliant(e)
          /\ SingleThreshold(e) = 3 /\ KickThreshold(e) = 5
          /\ Get(Policy(e), "kick_user", FALSE)
          /\ e.k > 0 /\ e.allIn )
        => /\ e.k < 3 => Issued(e, "mute") = 0
           /\ e.k >= 3 => Issued(e, "mute") = 1
           /\ e.k < 5 => Issued(e, "kick") = 0
           /\ e.k >= 5 /\ ~BeforeKickDecision(e) => Issued(e, "kick") = 1

\* C1 witness: the evaluation of the 5th verdict inside the window is over and
\* has issued one mute and one kick
C1_Witness ==
  \E t \in DOMAIN tasks :
    LET e == tasks[t]
    IN  /\ NonCompliant(e) /\ e.pc = "done"
        /\ SingleThreshold(e) = 3 /\ KickThreshold(e) = 5
        /\ e.k = 5 /\ e.allIn
        /\ Issued(e, "mute") = 1 /\ Issued(e, "kick") = 1

\* C2: a rung whose threshold is 0 or negative never fires, whatever the count
C2_DisabledRungNeverFires ==
  \A t \in DOMAIN tasks :
    LET e == tasks[t]
    IN  e.pc # "idle" =>
          /\ SingleThreshold(e) <= 0 => Issued(e, "mute") = 0
          /\ KickThreshold(e) <= 0 => Issued(e, "kick") = 0
          /\ GroupThreshold(e) <= 0 => Issued(e, "mute_all") = 0

\* C2 witness: an evaluation is over that counted 2 violations of the user and
\* of the group, with kick and lockdown disabled by threshold 0: it muted only
C2_Witness ==
  \E t \in DOMAIN tasks :
    LET e == tasks[t]
    IN  /\ NonCompliant(e) /\ e.pc = "done"
        /\ KickThreshold(e) = 0 /\ GroupThreshold(e) = 0 /\ Get(Policy(e), "kick_user", FALSE)
        /\ e.uv >= 2 /\ e.gk >= 2
        /\ Issued(e, "mute") = 1 /\ Issued(e, "kick") = 0 /\ Issued(e, "mute_all") = 0

LedgerUnchanged ==
  UNCHANGED <<user_violations, group_violations, history>>

\* C5: handling a yisi (Suspicious) or hegui (Compliant) verdict never appends to
\* the ledger; hegui issues no collaborator call, yisi only a notification to the
\* notify-target
C5_SuspiciousCompliantHarmless ==
  /\ [](\A t \in DOMAIN tasks :
          LET e == tasks[t]
          IN  /\ e.verdict = HEGUI => e.calls = <<>>
              /\ e.verdict = YISI =>
                   /\ Len(e.calls) <= 1
                   /\ \A i \in 1..Len(e.calls) :
                        e.calls[i] = Call("notify_group", NotifyTarget(e)))
  /\ [][\A t \in DOMAIN tasks :
          (tasks'[t] # tasks[t] /\ tasks'[t].verdict \in {HEGUI, YISI}) => LedgerUnchanged]_vars

\* C5 witness: a yisi verdict was handled while the ledger held a violation: one
\* notification to the notify-target, nothing else
C5_Witness ==
  \E t \in DOMAIN tasks :
    LET e == tasks[t]
    IN  /\ e.verdict = YISI /\ e.pc = "suspicious_notify"
        /\ e.calls = <<Call("notify_group", "n1")>>
        /\ Len(history) = 1
        /\ <<e.group, e.user>> \in DOMAIN user_violations

\* C6: handling a shenhe_shibai (ClassificationFailed) verdict never appends to
\* the ledger and issues exactly one call, the private notification to admin_id,
\* if admin_id is configured, and no call at all otherwise
C6_FailureToAdminOnly ==
  /\ [](\A t \in DOMAIN tasks :
          LET e == tasks[t]
              admin_id == Get(Policy(e), "admin_id", None)
          IN  e.verdict = SHENHE_SHIBAI =>
                e.calls = IF Truthy(admin_id)
                          THEN <<Call("notify_private", admin_id)>> ELSE <<>>)
  /\ [][\A t \in DOMAIN tasks :
          (tasks'[t] # tasks[t] /\ tasks'[t].verdict = SHENHE_SHIBAI) => LedgerUnchanged]_vars

\* C6 witness: a failed classification under a policy with admin_id and a
\* notify-target: the only call is the private notification to the admin
C6_Witness ==
  \E t \in DOMAIN tasks :
    LET e == tasks[t]
    IN  /\ e.verdict = SHENHE_SHIBAI /\ e.pc = "failure_notify"
        /\ Truthy(NotifyTarget(e))
        /\ e.calls = <<Call("notify_private", "a1")>>

\* the violations recorded since the task's message arrived, younger than cutoff
NewEvents(e, cutoff) ==
  SelectSeq(SubSeq(history, e.hist0 + 1, Len(history)), LAMBDA h : h.ts > cutoff)

\* C7: every buhegui content unit of a message is a violation of its own with a
\* punishment check of its own: when on_message is over, the message has added as
\* many events as it had buhegui units (e.nc) and run as many punishment checks,
\* and both series hold every one of these events that is inside the retention
\* horizon
C7_EveryUnitCounts ==
  \A t \in DOMAIN tasks :
    LET e == tasks[t]
    IN  e.pc = "done" =>
          /\ Len(NewEvents(e, -1)) = e.nc
          /\ e.checks = e.nc
          /\ \A i \in 1..Len(NewEvents(e, -1)) :
               /\ NewEvents(e, -1)[i].group = e.group
               /\ NewEvents(e, -1)[i].user = e.user
          /\ get_user_violation_count(e.group, e.user, RETENTION)
               >= Len(NewEvents(e, now - RETENTION))
          /\ get_group_violation_count(e.group, RETENTION)
               >= Len(NewEvents(e, now - RETENTION))

\* C7 witness: the first message of a user, with a buhegui text and a buhegui
\* image, is over: two events, two punishment checks, both counts are 2
C7_Witness ==
  \E t \in DOMAIN tasks :
    LET e == tasks[t]
    IN  /\ e.pc = "done" /\ e.hist0 = 0 /\ e.cls = 2 /\ e.nc = 2 /\ e.checks = 2
        /\ get_user_violation_count(e.group, e.user, DEFAULT_TIME_WINDOW) = 2
        /\ get_group_violation_count(e.group, DEFAULT_TIME_WINDOW) = 2

\* C10: the group ladder is evaluated in every buhegui evaluation, whatever the
\* user ladder did: once the user ladder is through, the group count has been
\* read, and lockdown was issued exactly if the group threshold is positive and
\* reached by the violations of the group inside the window at that moment
C10_IndependentLadders ==
  \A t \in DOMAIN tasks :
    LET e == tasks[t]
    IN  NonCompliant(e) /\ ~BeforeGroupCheck(e) =>
          /\ e.gk >= 0
          /\ Issued(e, "mute_all") =
               IF GroupThreshold(e) > 0 /\ e.gk >= GroupThreshold(e) THEN 1 ELSE 0

\* C10 witness: one evaluation issued mute, kick and lockdown
C10_Witness ==
  \E t \in DOMAIN tasks :
    LET e == tasks[t]
    IN  /\ NonCompliant(e)
        /\ Issued(e, "mute") = 1 /\ Issued(e, "kick") = 1 /\ Issued(e, "mute_all") = 1

----------------------------------------------------------------------------
(* Claims about concurrent evaluations, checked under SpecConc. *)

\* ghost: the time of the last add_violation, and so of the last expiry pass
LastPass == IF history = <<>> THEN 0 ELSE history[Len(history)].ts

Stamps(s) == [i \in 1..Len(s) |-> s[i].ts]

\* C11: under every interleaving the series of every key holds, in order of
\* arrival, exactly the violations recorded for the key less those the last
\* expiry pass dropped (timestamp <= time of the pass - 86400): no append is
\* lost, and in no state (so in none a count query reads) is an append or an
\* expiry pass applied to one of the two series and not to the other.
C11_NoLostViolation ==
  /\ \A g \in Groups, u \in Users :
       Get(user_violations, <<g, u>>, <<>>)
         = Stamps(RecordedUser(g, u, LastPass - RETENTION))
  /\ \A g \in Groups :
       Get(group_violations, g, <<>>) = Stamps(RecordedGroup(g, LastPass - RETENTION))

\* C11 witness: two evaluations of one user are in flight, both past their
\* record step, the second recorded 86400 s after the first: of the two
\* violations recorded the series hold the second only
C11_Witness ==
  \E t1 \in DOMAIN tasks, t2 \in DOMAIN tasks :
    /\ t1 # t2
    /\ tasks[t1].own = 1 /\ tasks[t2].own = 2
    /\ tasks[t1].pc \notin {"idle", "done"} /\ tasks[t2].pc \notin {"idle", "done"}
    /\ tasks[t1].user = tasks[t2].user
    /\ Len(history) = 2
    /\ Len(user_violations[<<tasks[t1].group, tasks[t1].user>>]) = 1
    /\ Len(group_violations[tasks[t1].group]) = 1

\* C12: an evaluation whose own violation is the k-th recorded for its user,
\* with k below the user threshold, never fires mute.
C12_BelowThresholdNeverMutes ==
  \A t \in DOMAIN tasks :
    LET e == tasks[t]
    IN  ( /\ NonCompliant(e)
          /\ e.own > 0
          /\ SingleThreshold(e) > 0
          /\ e.own < SingleThreshold(e) )
        => Issued(e, "mute") = 0

----------------------------------------------------------------------------
(* Claims about failures, gating and the order of the steps. *)

\* the evaluation of a buhegui verdict has run to its end
EvaluationOver(e) == e.verdict = BUHEGUI /\ e.pc \in {"classify", "done"}

\* the threshold conditions of the rungs, on the counts the evaluation read
MuteDue(e) == SingleThreshold(e) > 0 /\ e.uv >= SingleThreshold(e)

KickDue(e) ==
  /\ MuteDue(e)
  /\ KickThreshold(e) > 0 /\ e.uv >= KickThreshold(e)
  /\ Get(Policy(e), "kick_user", FALSE)

LockdownDue(e) == GroupThreshold(e) > 0 /\ e.gk >= GroupThreshold(e)

One(b) == IF b THEN 1 ELSE 0

\* C13: whatever platform calls failed, a finished buhegui evaluation has kept
\* its violation, has attempted the recall and every rung whose threshold
\* condition held, and has attempted every notice: the violation notice and
\* one notice per rung attempted.
C13_FailureIsolated ==
  \A t \in DOMAIN tasks :
    LET e == tasks[t]
    IN  EvaluationOver(e) =>
          /\ Len(NewEvents(e, -1)) >= 1
          /\ Issued(e, "recall") = 1
          /\ Issued(e, "mute") = One(MuteDue(e))
          /\ Issued(e, "kick") = One(KickDue(e))
          /\ Issued(e, "mute_all") = One(LockdownDue(e))
          /\ Issued(e, "notify_group") =
               IF Notifies(e)
               THEN 1 + One(MuteDue(e)) + One(KickDue(e)) + One(LockdownDue(e))
               ELSE 0

\* the message of the task is one on_message does not audit: a private message,
\* a group outside the enablement list (or the list empty), no classifier keys
Gated(e) ==
  \/ e.group = None
  \/ ~InList(e.group, Get(config, "enabled_groups", <<>>))
  \/ baidu_api(config) = None

\* C14: a gated message causes no classifier call, no ledger write and no
\* action; of any other message the text is classified exactly if the text
\* toggle is on and every image exactly if the image toggle is on: no unit of
\* a type switched off is ever queued, and when on_message ends it has made as
\* many classifier calls as the toggles let units through (e.expect).
C14_GateAndToggles ==
  \A t \in DOMAIN tasks :
    LET e == tasks[t]
    IN  e.pc # "idle" =>
          /\ Gated(e) =>
                /\ e.cls = 0 /\ e.calls = <<>> /\ e.verdict = "none"
                /\ NewEvents(e, -1) = <<>>
          /\ ~Get(config, "enable_text_censor", TRUE) => ~InList("text", e.units)
          /\ ~Get(config, "enable_image_censor", TRUE) => ~InList("image", e.units)
          /\ (~Gated(e) /\ e.pc = "done") => e.cls = e.expect

\* C14 witness: with g1 enabled, the classifier there and a violation of g1 on
\* the ledger, on_message is over for a message from g2 (not in the list):
\* nothing was classified
C14_Witness ==
  \E t \in DOMAIN tasks :
    LET e == tasks[t]
    IN  /\ e.pc = "done" /\ e.group = "g2"
        /\ InList("g1", Get(config, "enabled_groups", <<>>))
        /\ client # None
        /\ Len(history) = 1
        /\ e.cls = 0 /\ e.calls = <<>>

\* C15: while the classifier is not configured (no keys) or not initialised (no
\* SDK client), no message gets a verdict, a ledger write or a notification.
C15_UnavailableSkipsAll ==
  \A t \in DOMAIN tasks :
    LET e == tasks[t]
    IN  (e.pc # "idle" /\ (baidu_api(config) = None \/ client = None)) =>
          /\ e.verdict = "none"
          /\ e.calls = <<>>
          /\ NewEvents(e, -1) = <<>>

\* C16: whatever failed in the audit of a content unit (an error answer of the
\* classifier, an exception of the interpreter, a failed platform call), the
\* message's remaining units are still audited: the units classified so far
\* and those still to come always add up to the units of the message, and when
\* on_message ends every unit has been classified and, unless its
\* interpretation raised, handled.
C16_SiblingsSurvive ==
  \A t \in DOMAIN tasks :
    LET e == tasks[t]
    IN  (e.pc # "idle" /\ ~Gated(e)) =>
          /\ e.pc = "done" => e.cls = e.expect /\ e.units = <<>>
          /\ e.pc # "done" => e.cls - 1 + Len(e.units) = e.expect
          /\ e.raised <= e.cls
          /\ e.pc = "done" => e.checks = e.nc

\* C16 witness: the interpretation of the text raised, the image was classified
\* all the same, found buhegui and handled, and on_message is over
C16_Witness ==
  \E t \in DOMAIN tasks :
    LET e == tasks[t]
    IN  /\ e.pc = "done" /\ e.expect = 2
        /\ e.raised = 1 /\ e.cls = 2
        /\ e.verdict = BUHEGUI /\ e.nc = 1 /\ Issued(e, "recall") = 1

\* the platform calls of a buhegui evaluation, in the order of the code
StepOrder ==
  << "recall", "notify_group", "mute", "notify_group",
     "kick", "notify_group", "mute_all", "notify_group" >>

Ops(calls) == [i \in 1..Len(calls) |-> calls[i].op]

RECURSIVE IsSubseq(_, _)
\* s is tmpl with some of its elements left out
IsSubseq(s, tmpl) ==
  IF s = <<>> THEN TRUE
  ELSE IF tmpl = <<>> THEN FALSE
  ELSE IF Head(s) = Head(tmpl) THEN IsSubseq(Tail(s), Tail(tmpl))
  ELSE IsSubseq(s, Tail(tmpl))

\* C17: in every buhegui evaluation, whatever the thresholds, the violation is
\* on the ledger by the time the first platform call is out, that call is the
\* recall, the violation notice (if there is a notify-target) is the second,
\* the user count is read after them and before the group count, and the calls
\* follow the order recall, notice, mute, notice, kick, notice, lockdown, notice.
C17_StepOrder ==
  \A t \in DOMAIN tasks :
    LET e == tasks[t]
        ops == Ops(e.calls)
    IN  NonCompliant(e) =>
          /\ e.own > 0
          /\ Len(RecordedUser(e.group, e.user, -1)) >= e.own
          /\ RecordedUser(e.group, e.user, -1)[e.own].by = t
          /\ Len(ops) >= 1 /\ ops[1] = "recall"
          /\ IsSubseq(ops, StepOrder)
          /\ (Notifies(e) /\ Len(ops) >= 2) => ops[2] = "notify_group"
          /\ ~Notifies(e) => Issued(e, "notify_group") = 0
          /\ e.k > 0 => Len(ops) >= (IF Notifies(e) THEN 2 ELSE 1)
          /\ e.gk >= 0 => e.k > 0

\* C17 witness: every threshold is disabled and a buhegui evaluation is over:
\* the violation is on the ledger, the calls were the recall and the notice
C17_Witness ==
  \E t \in DOMAIN tasks :
    LET e == tasks[t]
    IN  /\ EvaluationOver(e) /\ e.pc = "done"
        /\ SingleThreshold(e) <= 0 /\ KickThreshold(e) <= 0 /\ GroupThreshold(e) <= 0
        /\ e.own = 1 /\ <<e.group, e.user>> \in DOMAIN user_violations
        /\ Ops(e.calls) = <<"recall", "notify_group">>

\* C18: an evaluation issues the kick only if kick_user is set, the kick
\* threshold is positive and reached by the user count, and the mute rung fired
\* in the same evaluation before it (mute threshold positive and reached).
C18_KickOnlyAfterMute ==
  \A t \in DOMAIN tasks :
    LET e == tasks[t]
    IN  (e.pc # "idle" /\ Issued(e, "kick") > 0) =>
          /\ Issued(e, "kick") = 1
          /\ Get(Policy(e), "kick_user", FALSE)
          /\ KickThreshold(e) > 0 /\ e.uv >= KickThreshold(e)
          /\ SingleThreshold(e) > 0 /\ e.uv >= SingleThreshold(e)
          /\ Issued(e, "mute") = 1
          /\ IsSubseq(<<"mute", "kick">>, Ops(e.calls))

\* C18 witness: kick_user is set and the user count has reached the kick
\* threshold, but the mute rung is disabled: the evaluation is over, no kick
C18_Witness ==
  \E t \in DOMAIN tasks :
    LET e == tasks[t]
    IN  /\ EvaluationOver(e) /\ e.pc = "done"
        /\ Get(Policy(e), "kick_user", FALSE)
        /\ KickThreshold(e) > 0 /\ e.uv >= KickThreshold(e)
        /\ ~MuteDue(e)
        /\ Issued(e, "mute") = 0 /\ Issued(e, "kick") = 0

\* C19: the rungs are level-triggered: every buhegui evaluation that finds the
\* user's k violations all inside the window, with k at or above a positive
\* user threshold, fires mute (so from the T-th to the N-th verdict each), and
\* every one that finds the group count at or above a positive group threshold
\* fires the lockdown.
C19_LevelTriggered ==
  \A t \in DOMAIN tasks :
    LET e == tasks[t]
    IN  NonCompliant(e) =>
          /\ (e.k > 0 /\ e.allIn /\ SingleThreshold(e) > 0 /\ e.k >= SingleThreshold(e))
               => Issued(e, "mute") = 1
          /\ (~BeforeGroupCheck(e) /\ GroupThreshold(e) > 0 /\ e.gk >= GroupThreshold(e))
               => Issued(e, "mute_all") = 1

\* C19 witness: the evaluation of a verdict that found both counts above their
\* thresholds (reached by an earlier verdict already) fired mute and lockdown
C19_Witness ==
  \E t \in DOMAIN tasks :
    LET e == tasks[t]
    IN  /\ EvaluationOver(e)
        /\ SingleThreshold(e) > 0 /\ e.k > SingleThreshold(e) /\ e.allIn
        /\ GroupThreshold(e) > 0 /\ e.gk > GroupThreshold(e)
        /\ Issued(e, "mute") = 1 /\ Issued(e, "mute_all") = 1

----------------------------------------------------------------------------
(* The two views of the ledger, checked under SpecViews. *)

\* the series stored under a key, empty if the key is not tracked
Series(m, key) == IF key \in DOMAIN m THEN m[key] ELSE <<>>

\* how often timestamp x occurs in a series
Occurrences(s, x) == Len(SelectSeq(s, LAMBDA ts : ts = x))

\* the users with a tracked series in group g
TrackedUsers(g) == {k[2] : k \in {x \in DOMAIN user_violations : x[1] = g}}

\* the timestamps the per-group series of g holds
GroupStamps(g) ==
  {Series(group_violations, g)[i] : i \in 1..Len(Series(group_violations, g))}

\* the places (user, index) of the per-(g, u) series that hold timestamp x
UserPlaces(g, x) ==
  {p \in UNION {{<<u, i>> : i \in 1..Len(user_violations[<<g, u>>])} : u \in TrackedUsers(g)} :
     user_violations[<<g, p[1]>>][p[2]] = x}

RECURSIVE SumCounts(_, _, _)
\* the sum over the users of U of get_user_violation_count(g, u, W)
SumCounts(U, g, W) ==
  IF U = {} THEN 0
  ELSE LET u == CHOOSE v \in U : TRUE
       IN  get_user_violation_count(g, u, W) + SumCounts(U \ {u}, g, W)

\* C21: in every reachable state the per-group series of g holds exactly the
\* timestamps of the per-(g, u) series of all users u, as a multiset (every
\* timestamp as often as the user series together, and as many in all); so at
\* the same instant the group count equals the sum of the user counts of the
\* group, for every window, and is never smaller than the count of any single
\* user.
C21_SameEvents ==
  \A g \in Groups \cup DOMAIN group_violations \cup {k[1] : k \in DOMAIN user_violations} :
    /\ \A x \in GroupStamps(g) :
         Occurrences(group_violations[g], x) = Cardinality(UserPlaces(g, x))
    /\ \A u \in TrackedUsers(g) :
         \A i \in 1..Len(user_violations[<<g, u>>]) :
           user_violations[<<g, u>>][i] \in GroupStamps(g)
    /\ \A W \in Windows :
         /\ get_group_violation_count(g, W) = SumCounts(Users \cup TrackedUsers(g), g, W)
         /\ \A u \in Users :
              get_group_violation_count(g, W) >= get_user_violation_count(g, u, W)

\* C21 witness: three violations were recorded in one group by two users, the
\* expiry pass has removed one from both views, the two that remain belong to
\* different users and are both counted in the window of 86400 s
C21_Witness ==
  \E g \in Groups :
    /\ Len(RecordedGroup(g, -1)) = 3
    /\ Len(Series(group_violations, g)) = 2
    /\ TrackedUsers(g) = Users
    /\ get_group_violation_count(g, RETENTION) = 2
    /\ \A u \in Users : get_user_violation_count(g, u, RETENTION) = 1

----------------------------------------------------------------------------
(* The ledger under enforcement, checked under SpecLadder. *)

\* a coroutine is past the record step of an evaluation: suspended in a
\* collaborator call (recall, mute, kick, lockdown, a notification) or over
Enforcing(e) == e.pc \notin {"idle", "classify"}

\* every stored event younger than the retention horizon is kept by the step
OnlyExpiredRemoved ==
  /\ \A k \in DOMAIN user_violations :
       \A i \in 1..Len(user_violations[k]) :
         LET x == user_violations[k][i]
         IN  x > now' - RETENTION =>
               Occurrences(Series(user_violations', k), x) >= Occurrences(user_violations[k], x)
  /\ \A k \in DOMAIN group_violations :
       \A i \in 1..Len(group_violations[k]) :
         LET x == group_violations[k][i]
         IN  x > now' - RETENTION =>
               Occurrences(Series(group_violations', k), x) >= Occurrences(group_violations[k], x)

\* C22: no step of an evaluation after its record step (the return of recall,
\* mute, kick, lockdown or of a notification, and the end of on_message) changes
\* either series; both series change only in a step that records a violation,
\* and such a step removes nothing but events of 24 h ago or older.  Hence the
\* count an evaluation reads is the number of all violations recorded for the
\* user, mutes and kicks of earlier evaluations notwithstanding, whenever all of
\* them lie inside the window.
C22_EnforcementKeepsLedger ==
  /\ [][ /\ (\E t \in DOMAIN tasks : Enforcing(tasks[t]) /\ tasks'[t] # tasks[t])
            => LedgerUnchanged
         /\ history' = history => UNCHANGED <<user_violations, group_violations>>
         /\ OnlyExpiredRemoved ]_vars
  /\ [](\A t \in DOMAIN tasks :
          LET e == tasks[t]
          IN  (NonCompliant(e) /\ e.k > 0 /\ e.allIn) => e.uv = e.k)

\* C22 witness: the 5th violation of the user, who was muted for the 3rd and
\* the 4th, has been evaluated against a count of 5; its evaluation has muted,
\* kicked and locked the group down, and both series still hold the 5 events
C22_Witness ==
  \E t \in DOMAIN tasks :
    LET e == tasks[t]
    IN  /\ NonCompliant(e) /\ e.pc = "done"
        /\ e.k = 5 /\ e.allIn /\ e.uv = 5
        /\ Issued(e, "mute") = 1 /\ Issued(e, "kick") = 1 /\ Issued(e, "mute_all") = 1
        /\ Len(Series(user_violations, <<e.group, e.user>>)) = 5
        /\ Len(Series(group_violations, e.group)) = 5

----------------------------------------------------------------------------
(* The counts of an evaluation and its own violation, checked under        *)
(* SpecDelay.                                                              *)

\* the window of the policy of the evaluation
TimeWindow(e) == Get(Policy(e), "time_window", DEFAULT_TIME_WINDOW)

\* the timestamp of the violation this evaluation recorded
OwnStamp(e) == RecordedUser(e.group, e.user, -1)[e.own].ts

\* the step is the one in which coroutine t reads the user count (line 435)
ReadsUser(t) == tasks'[t].checks = tasks[t].checks + 1

\* the step is the one in which coroutine t reads the group count (line 454)
ReadsGroup(t) == tasks[t].pc # "idle" /\ tasks[t].gk = -1 /\ tasks'[t].gk # -1

\* less than the window and less than the retention horizon has passed since
\* the evaluation recorded its violation
Recent(e) == now - OwnStamp(e) < TimeWindow(e) /\ now - OwnStamp(e) < RETENTION

\* the user series / the group series still holds the evaluation's violation
\* inside the window
OwnInUserCount(e) ==
  /\ get_user_violation_count(e.group, e.user, TimeWindow(e)) >= 1
  /\ OwnStamp(e) > now - TimeWindow(e)
  /\ Occurrences(Series(user_violations, <<e.group, e.user>>), OwnStamp(e)) >= 1

OwnInGroupCount(e) ==
  /\ get_group_violation_count(e.group, TimeWindow(e)) >= 1
  /\ OwnStamp(e) > now - TimeWindow(e)
  /\ Occurrences(Series(group_violations, e.group), OwnStamp(e)) >= 1

\* C23 (as stated): whatever time passes and whatever other evaluations run
\* between the record step and the count queries, the user count and the group
\* count an evaluation reads include the violation it recorded (both >= 1), and
\* with a threshold of 1 the read fires the rung (mute, lockdown).
C23_CountsIncludeOwn ==
  [][\A t \in DOMAIN tasks :
       LET e == tasks[t]
       IN  /\ ReadsUser(t) =>
                /\ OwnInUserCount(e)
                /\ SingleThreshold(e) = 1 => Issued(tasks'[t], "mute") = 1
           /\ ReadsGroup(t) =>
                /\ OwnInGroupCount(e)
                /\ GroupThreshold(e) = 1 => Issued(tasks'[t], "mute_all") = 1]_vars

\* C23 (amended): the same for every count that is read when less than the
\* window and less than 24 h have passed since the evaluation recorded its
\* violation, whatever other evaluations run in between.
C23_RecentCountsIncludeOwn ==
  [][\A t \in DOMAIN tasks :
       LET e == tasks[t]
       IN  /\ (ReadsUser(t) /\ Recent(e)) =>
                /\ OwnInUserCount(e)
                /\ SingleThreshold(e) = 1 => Issued(tasks'[t], "mute") = 1
           /\ (ReadsGroup(t) /\ Recent(e)) =>
                /\ OwnInGroupCount(e)
                /\ GroupThreshold(e) = 1 => Issued(tasks'[t], "mute_all") = 1]_vars

\* C23 witness: under the window of 90000 s an evaluation recorded its
\* violation, 300 s passed, another evaluation recorded a violation and ran its
\* expiry pass, and the first evaluation has read both counts since, muted and
\* locked the group down
C23_Witness ==
  \E t \in DOMAIN tasks :
    LET e == tasks[t]
    IN  /\ NonCompliant(e) /\ e.pc = "done" /\ e.own > 0
        /\ TimeWindow(e) = 90000
        /\ Len(history) = 2 /\ history[1].by = t /\ history[2].by # t
        /\ history[2].ts = history[1].ts + 300
        /\ e.uv >= 1 /\ e.gk = 2
        /\ Issued(e, "mute") = 1 /\ Issued(e, "mute_all") = 1

====
